---- MODULE Spec2Model ----
(***************************************************************************)
(* State-machine model of doris::vectorized::VMetaScanner                  *)
(* (be/src/vec/exec/scan/vmeta_scanner.cpp): the scanner that fetches one  *)
(* batch of metadata rows from the frontend and converts it into the       *)
(* columns of the caller's Block.                                          *)
(*                                                                         *)
(* One scanner instance is driven by one thread.  The scan node prepares   *)
(* a scanner once, when it creates it; the scanner is opened and asked for *)
(* blocks only after prepare returned OK.  The cancellation flag of the    *)
(* RuntimeState is set by another thread at any time.                      *)
(***************************************************************************)
EXTENDS Integers, Sequences, FiniteSets

VARIABLES
    slots,          \* slots() of the tuple descriptor _tuple_id names (fixed)
    has_params,     \* _scan_range.meta_scan_range.__isset.iceberg_params
    _tuple_desc,    \* "null" until prepare resolves it, then "set"
    _vconjunct_ctx, \* "null" or "cloned"
    _meta_eos,      \* the end-of-stream latch
    _batch_data,    \* the buffered rows (std::vector<TRow>)
    fetchCount,     \* how many times the fetch RPC was issued
    fetched,        \* what the fetch RPC met: how the call ended, and the result
    prepStatus,     \* "none" before prepare, then the Status it returned
    opened,         \* open() was called
    closed,         \* VScanner::_is_closed
    releases,       \* how many times close released the predicate context
    closeCalls,     \* close() calls made so far, saturating
    closeRet,       \* Status of the last close() return ("none": none yet)
    cancelled,      \* state->is_cancelled()
    pc,             \* "idle", or "loop": inside the do-while of _get_block_impl
    mem_reuse,      \* local of _get_block_impl (FALSE when the call never set it)
    parity,         \* the call is after an odd number of passes of its do-while
    columns,        \* local of _get_block_impl, as the last fill of the call left it
    fills,          \* fill calls made by the current/last _get_block_impl, saturating
    appends,        \* per slot: fill passes that appended the rows to its column,
                    \* over the life of the scanner (0, 1, or 2 for more)
    block,          \* the caller's Block
    eof,            \* the caller's *eof
    call,           \* what the current/last _get_block_impl call was given
    ret             \* Status of the last _get_block_impl return ("none": none yet)

vars == <<slots, has_params, _tuple_desc, _vconjunct_ctx, _meta_eos, _batch_data,
          fetchCount, fetched, prepStatus, opened, closed, releases, closeCalls,
          closeRet, cancelled, pc,
          mem_reuse, parity, columns, fills, appends, block, eof, call, ret>>

-----------------------------------------------------------------------------
(* Bounds *)

MaxSlots == 3       \* slots per tuple descriptor
MaxRows == 2        \* rows per fetched batch
MaxBlockCols == 6   \* columns a Block may grow to while the fill loop spins
MaxColRows == 4     \* rows a column may grow to while the fill loop spins
MaxLiveSlots == 2   \* slots per tuple descriptor when fair behaviours are followed

-----------------------------------------------------------------------------
(* Values.  A 64-bit integer is its two's complement bit pattern, as four  *)
(* 16-bit limbs, most significant first; a 32-bit integer is two limbs.    *)
(* A string is the sequence of its bytes.                                  *)

Supported == {"TYPE_INT", "TYPE_BIGINT", "TYPE_DATETIMEV2",
              "TYPE_STRING", "TYPE_CHAR", "TYPE_VARCHAR"}

\* The slot descriptors a tuple descriptor is built from.
SlotKinds ==
    { [type |-> "TYPE_INT",        is_nullable |-> FALSE, is_materialized |-> TRUE],
      [type |-> "TYPE_BIGINT",     is_nullable |-> FALSE, is_materialized |-> TRUE],
      [type |-> "TYPE_DATETIMEV2", is_nullable |-> TRUE,  is_materialized |-> TRUE],
      [type |-> "TYPE_STRING",     is_nullable |-> TRUE,  is_materialized |-> TRUE],
      [type |-> "TYPE_DOUBLE",     is_nullable |-> FALSE, is_materialized |-> TRUE],
      [type |-> "TYPE_DOUBLE",     is_nullable |-> TRUE,  is_materialized |-> FALSE] }

\* The tuple descriptors followed: up to MaxSlots slots, no two of one kind.
SlotLists ==
    { s \in UNION { [1..n -> SlotKinds] : n \in 1..MaxSlots } :
        \A i, j \in 1..Len(s) : i # j => s[i] # s[j] }

\* The cell of row r at column c.  Odd rows are ordinary rows; even rows
\* carry an integer outside the 32-bit range, a negative 64-bit value and an
\* empty string.
TCell(r, c) ==
    IF r % 2 = 0
    THEN [intVal    |-> <<0, 1, 32768, c>>,
          longVal   |-> <<65535, 65535, 65535, 65535 - c>>,
          stringVal |-> <<>>]
    ELSE [intVal    |-> <<0, 0, 0, 10 * c + r>>,
          longVal   |-> <<0, 0, 0, 41 + r + 10 * (c - 1)>>,
          stringVal |-> <<115, 96 + r, 48 + c>>]

\* Row r of a result for a tuple of n slots: n cells, aligned to the slot order.
TRow(r, n) == [column_value |-> [c \in 1..n |-> TCell(r, c)]]

\* The data batches the frontend may answer with: up to MaxRows rows.
Batches(n) == { [r \in 1..m |-> TRow(r, n)] : m \in 0..MaxRows }

-----------------------------------------------------------------------------
(* Columns and Blocks *)

\* A column: the values of its (nested) data column and, for a nullable
\* column, the null map kept beside them.
EmptyColumn == [data |-> <<>>, null_map |-> <<>>]

\* SlotDescriptor::get_empty_mutable_column
get_empty_mutable_column(i) == EmptyColumn

\* Block::rows: the size of the first column, 0 for a Block without columns.
BlockRows(b) == IF Len(b) = 0 THEN 0 ELSE Len(b[1].column.data)

\* Block::mem_reuse: the Block already has columns.
BlockMemReuse(b) == Len(b) > 0

\* A Block the caller reuses: one emptied column per slot, typed and named
\* after the slot.
ReusedBlock == [i \in 1..Len(slots) |-> [column |-> EmptyColumn, slot |-> i]]

\* What a caller hands in: a fresh Block, or a reused (emptied) one.
CallerBlocks == { <<>>, ReusedBlock }

-----------------------------------------------------------------------------
(* The convert stage: VMetaScanner::_fill_block_with_remote_data *)

\* A variant of the conversion that clamps an integer outside the 32-bit
\* range to the nearest 32-bit value.
ConvertCell_Clamp(type, cell) ==
    CASE type = "TYPE_INT" ->
            LET v == cell.intVal
            IN  IF v[1] = 0 /\ (v[2] > 0 \/ v[3] >= 32768)
                THEN <<32767, 65535>>
                ELSE IF v[1] = 65535 /\ (v[2] < 65535 \/ v[3] < 32768)
                     THEN <<32768, 0>>
                     ELSE <<v[3], v[4]>>
      [] type = "TYPE_BIGINT" -> cell.longVal
      [] type = "TYPE_DATETIMEV2" -> cell.longVal
      [] OTHER -> [i \in 1..Len(cell.stringVal) |-> cell.stringVal[i]]

\* The value the switch on slot_desc->type().type inserts for one cell.
ConvertCell(type, cell) ==
    CASE type = "TYPE_INT" ->
            \* int64_t data = intVal; ColumnVector<Int32>::insert_value(data)
            <<cell.intVal[3], cell.intVal[4]>>
      [] type = "TYPE_BIGINT" -> cell.longVal
      [] type = "TYPE_DATETIMEV2" -> cell.longVal
      [] OTHER ->
            \* insert_data(data.c_str(), data.length())
            [i \in 1..Len(cell.stringVal) |-> cell.stringVal[i]]

\* The insertion target: the nested column of a nullable column, else the
\* column itself.  Either way the value lands in data; a null map is left
\* as it is.
InsertValue(col, slot_desc, v) == [col EXCEPT !.data = Append(@, v)]

\* A variant of the cell lookup that reads the row at the position of the
\* column among the materialized slots, not at its position in the slot list.
RemoteCell_MaterializedIndex(_row_idx, col_idx) ==
    _batch_data[_row_idx].column_value[
        Cardinality({i \in 1..col_idx : slots[i].is_materialized})]

\* The cell the switch reads for row _row_idx and column col_idx.
RemoteCell(_row_idx, col_idx) == _batch_data[_row_idx].column_value[col_idx]

\* The loop over the rows of one materialized column, from row _row_idx on.
RECURSIVE FillRows(_, _, _)
FillRows(col, col_idx, _row_idx) ==
    IF _row_idx > Len(_batch_data)
    THEN [column |-> col, ok |-> TRUE]
    ELSE IF slots[col_idx].type \notin Supported
         THEN [column |-> col, ok |-> FALSE]
         ELSE FillRows(InsertValue(col, slots[col_idx],
                                   ConvertCell(slots[col_idx].type,
                                               RemoteCell(_row_idx, col_idx))),
                       col_idx, _row_idx + 1)

\* The loop over the columns, from column col_idx on.  The result carries
\* the columns, the Status and the value of _meta_eos the function leaves.
RECURSIVE FillCols(_, _)
FillCols(cols, col_idx) ==
    IF col_idx > Len(cols)
    THEN [columns |-> cols, status |-> "OK", meta_eos |-> TRUE]
    ELSE IF ~slots[col_idx].is_materialized
         THEN FillCols(cols, col_idx + 1)
         ELSE LET r == FillRows(cols[col_idx], col_idx, 1)
                  filled == [cols EXCEPT ![col_idx] = r.column]
              IN  IF r.ok
                  THEN FillCols(filled, col_idx + 1)
                  ELSE [columns |-> filled, status |-> "InternalError",
                        meta_eos |-> FALSE]

\* A variant of the loop over the columns without the is_materialized test.
RECURSIVE FillEveryCol(_, _)
FillEveryCol(cols, col_idx) ==
    IF col_idx > Len(cols)
    THEN [columns |-> cols, status |-> "OK", meta_eos |-> TRUE]
    ELSE LET r == FillRows(cols[col_idx], col_idx, 1)
             filled == [cols EXCEPT ![col_idx] = r.column]
         IN  IF r.ok
             THEN FillEveryCol(filled, col_idx + 1)
             ELSE [columns |-> filled, status |-> "InternalError",
                   meta_eos |-> FALSE]

FillEverySlot(cols) == FillEveryCol(cols, 1)

_fill_block_with_remote_data(cols) == FillCols(cols, 1)

-----------------------------------------------------------------------------
(* The fetch stage: VMetaScanner::_fetch_iceberg_metadata_batch *)

\* A TFetchSchemaTableDataResult nothing was written to.
NoResult == [status |-> "OK", data_batch |-> <<>>]

\* What the frontend may answer: a status and a data batch.
Responses(n) == { [status |-> st, data_batch |-> b] :
                    st \in {"OK", "RemoteError"}, b \in Batches(n) }

\* A variant of the fetch that moves the data batch before it looks at the
\* status of the result.
FetchMoveBeforeStatus(rpc, result) ==
    IF rpc # "OK"
    THEN [status |-> rpc, batch_data |-> _batch_data]
    ELSE [status |-> result.status, batch_data |-> result.data_batch]

\* rpc: how ThriftRpcHelper::rpc ended; result: the TFetchSchemaTableDataResult.
\* Gives the Status returned and the value _batch_data is left with.
_fetch_iceberg_metadata_batch(rpc, result) ==
    IF rpc # "OK"
    THEN [status |-> rpc, batch_data |-> _batch_data]
    ELSE IF result.status # "OK"
         THEN [status |-> result.status, batch_data |-> _batch_data]
         ELSE [status |-> "OK", batch_data |-> result.data_batch]

-----------------------------------------------------------------------------
(* The lifecycle *)

NoCall == [args |-> "none", in_block |-> <<>>, meta_eos |-> FALSE,
           cancelled |-> FALSE]

Init ==
    /\ slots \in SlotLists
    /\ has_params \in BOOLEAN
    /\ _tuple_desc = "null"
    /\ _vconjunct_ctx = "null"
    /\ _meta_eos = FALSE
    /\ _batch_data = <<>>
    /\ fetchCount = 0
    /\ fetched = [rpc |-> "none", result |-> NoResult]
    /\ prepStatus = "none"
    /\ opened = FALSE
    /\ closed = FALSE
    /\ closeCalls = "none"
    /\ closeRet = "none"
    /\ releases = 0
    /\ cancelled = FALSE
    /\ pc = "idle"
    /\ mem_reuse = FALSE
    /\ parity = FALSE
    /\ columns = <<>>
    /\ fills = "none"
    /\ appends = [i \in 1..Len(slots) |-> 0]
    /\ block = <<>>
    /\ eof = FALSE
    /\ call = NoCall
    /\ ret = "none"

\* VMetaScanner::open
open ==
    /\ pc = "idle"
    /\ prepStatus = "OK"
    /\ ~opened
    /\ opened' = TRUE
    /\ UNCHANGED <<slots, has_params, _tuple_desc, _vconjunct_ctx, _meta_eos,
                   _batch_data, fetchCount, fetched, prepStatus, closed, releases,
                   closeCalls, closeRet,
                   cancelled, pc, mem_reuse, parity, columns, fills, appends,
                   block, eof, call, ret>>

\* A variant of the branch that forgets the latch when there is nothing to fetch.
FetchOrLatch_NoLatch(rpc, result) ==
    IF has_params
    THEN LET f == _fetch_iceberg_metadata_batch(rpc, result)
         IN  [status |-> f.status, batch_data |-> f.batch_data,
              meta_eos |-> _meta_eos, fetches |-> fetchCount + 1,
              fetched |-> [rpc |-> rpc, result |-> result]]
    ELSE [status |-> "OK", batch_data |-> _batch_data, meta_eos |-> _meta_eos,
          fetches |-> fetchCount, fetched |-> fetched]

\* A variant of the branch that issues the fetch a second time when the
\* first one failed.
FetchOrLatch_Retry(rpc, result) ==
    IF has_params
    THEN LET f == _fetch_iceberg_metadata_batch(rpc, result)
         IN  [status |-> f.status, batch_data |-> f.batch_data,
              meta_eos |-> _meta_eos,
              fetches |-> IF f.status = "OK" THEN fetchCount + 1 ELSE fetchCount + 2,
              fetched |-> [rpc |-> rpc, result |-> result]]
    ELSE [status |-> "OK", batch_data |-> _batch_data, meta_eos |-> TRUE,
          fetches |-> fetchCount, fetched |-> fetched]

\* The branch of prepare on the metadata kind of the scan range: the fetch,
\* or the end-of-stream latch.  Gives the Status, the fields it leaves and
\* the number of fetch RPCs issued so far.
FetchOrLatch(rpc, result) ==
    IF has_params
    THEN LET f == _fetch_iceberg_metadata_batch(rpc, result)
         IN  [status |-> f.status, batch_data |-> f.batch_data,
              meta_eos |-> _meta_eos, fetches |-> fetchCount + 1,
              fetched |-> [rpc |-> rpc, result |-> result]]
    ELSE [status |-> "OK", batch_data |-> _batch_data, meta_eos |-> TRUE,
          fetches |-> fetchCount, fetched |-> fetched]

\* VMetaScanner::prepare.  ctx: vconjunct_ctx_ptr is null ("nullptr"), or its
\* clone succeeds ("OK") or fails; rpc and result: what the fetch meets.
prepare ==
    /\ pc = "idle"
    /\ prepStatus = "none"
    /\ \E ctx \in {"nullptr", "OK", "CloneError"},
          rpc \in {"OK", "RpcError"},
          result \in Responses(Len(slots)) :
         /\ rpc # "OK" => result = NoResult
         /\ IF ctx = "CloneError"
            THEN /\ prepStatus' = "CloneError"
                 /\ UNCHANGED <<_tuple_desc, _vconjunct_ctx, _meta_eos, _batch_data,
                                fetchCount, fetched>>
            ELSE LET p == FetchOrLatch(rpc, result)
                 IN  /\ _vconjunct_ctx' = IF ctx = "OK" THEN "cloned"
                                          ELSE _vconjunct_ctx
                     /\ _tuple_desc' = "set"
                     /\ fetchCount' = p.fetches
                     /\ fetched' = p.fetched
                     /\ _batch_data' = p.batch_data
                     /\ _meta_eos' = p.meta_eos
                     /\ prepStatus' = p.status
    /\ UNCHANGED <<slots, has_params, opened, closed, releases, closeCalls, closeRet,
                   cancelled, pc,
                   mem_reuse, parity, columns, fills, appends, block, eof, call, ret>>

\* A variant of the loop body that sets *eof whenever the fill latched
\* end-of-stream, without looking at the rows of the Block.
FillPass_EofWhenDrained(blk, eofv, reuse) ==
    LET cols == [i \in 1..Len(slots) |->
                    IF reuse THEN blk[i].column
                             ELSE get_empty_mutable_column(i)]
        f == _fill_block_with_remote_data(cols)
        grew == {i \in 1..Len(slots) : Len(f.columns[i].data) > Len(cols[i].data)}
        seen == IF reuse
                THEN [i \in 1..Len(blk) |->
                         IF i <= Len(slots)
                         THEN [blk[i] EXCEPT !.column = f.columns[i]]
                         ELSE blk[i]]
                ELSE blk
    IN  IF f.meta_eos
        THEN [block |-> seen,
              eof |-> TRUE,
              meta_eos |-> TRUE, columns |-> f.columns, grew |-> grew,
              filled |-> TRUE, done |-> TRUE, status |-> "OK"]
        ELSE LET out == IF ~reuse
                        THEN seen \o [i \in 1..Len(slots) |->
                                         [column |-> f.columns[i], slot |-> i]]
                        ELSE seen
             IN  [block |-> out, eof |-> eofv, meta_eos |-> _meta_eos,
                  columns |-> f.columns, grew |-> grew, filled |-> TRUE,
                  done |-> ~(BlockRows(out) = 0 /\ ~eofv), status |-> "OK"]

\* The body of the do-while of _get_block_impl after the cancellation
\* check, on the caller's Block blk and flag eofv, with the local mem_reuse
\* as reuse: the Block, the flag and _meta_eos it leaves, the columns as the
\* fill left them, the columns it appended rows to (grew), whether the fill
\* ran, whether the function returns (done) and with which Status.
FillPass(blk, eofv, reuse) ==
    LET cols == [i \in 1..Len(slots) |->
                    IF reuse THEN blk[i].column
                             ELSE get_empty_mutable_column(i)]
        \* the Status of the fill is dropped; its effects stay
        f == _fill_block_with_remote_data(cols)
        grew == {i \in 1..Len(slots) : Len(f.columns[i].data) > Len(cols[i].data)}
        \* a reused column is mutated in place: the Block sees the rows
        seen == IF reuse
                THEN [i \in 1..Len(blk) |->
                         IF i <= Len(slots)
                         THEN [blk[i] EXCEPT !.column = f.columns[i]]
                         ELSE blk[i]]
                ELSE blk
    IN  IF f.meta_eos
        THEN [block |-> seen,
              eof |-> IF BlockRows(seen) = 0 THEN TRUE ELSE eofv,
              meta_eos |-> TRUE, columns |-> f.columns, grew |-> grew,
              filled |-> TRUE, done |-> TRUE, status |-> "OK"]
        ELSE LET out == IF ~reuse
                        THEN seen \o [i \in 1..Len(slots) |->
                                         [column |-> f.columns[i], slot |-> i]]
                        ELSE seen
             IN  [block |-> out, eof |-> eofv, meta_eos |-> _meta_eos,
                  columns |-> f.columns, grew |-> grew, filled |-> TRUE,
                  done |-> ~(BlockRows(out) = 0 /\ ~eofv), status |-> "OK"]

\* A variant of the loop body without the cancellation check.
LoopBody_NoCancelCheck(blk, eofv, reuse) == FillPass(blk, eofv, reuse)

\* One pass through the body of the do-while of _get_block_impl:
\* RETURN_IF_CANCELLED, then the rest.
LoopBody(blk, eofv, reuse) ==
    IF cancelled
    THEN [block |-> blk, eof |-> eofv, meta_eos |-> _meta_eos, columns |-> columns,
          grew |-> {}, filled |-> FALSE, done |-> TRUE, status |-> "Cancelled"]
    ELSE FillPass(blk, eofv, reuse)

\* A variant of the entry that does not set *eof at end-of-stream.
EnterBlockImpl_EofUnset(args, b) ==
    IF args # "OK"
    THEN [ret |-> "InternalError", eof |-> FALSE, pc |-> "idle"]
    ELSE IF _meta_eos
         THEN [ret |-> "OK", eof |-> FALSE, pc |-> "idle"]
         ELSE [ret |-> "running", eof |-> FALSE, pc |-> "loop"]

\* A variant of the entry that looks at end-of-stream before the null checks.
EnterBlockImpl_EosFirst(args, b) ==
    IF _meta_eos
    THEN [ret |-> "OK", eof |-> TRUE, pc |-> "idle"]
    ELSE IF args # "OK"
         THEN [ret |-> "InternalError", eof |-> FALSE, pc |-> "idle"]
         ELSE [ret |-> "running", eof |-> FALSE, pc |-> "loop"]

\* A variant of the entry without the end-of-stream check: a call at
\* end-of-stream goes into the fill loop like any other.
EnterBlockImpl_NoEosCheck(args, b) ==
    IF args # "OK"
    THEN [ret |-> "InternalError", eof |-> FALSE, pc |-> "idle"]
    ELSE [ret |-> "running", eof |-> FALSE, pc |-> "loop"]

\* _get_block_impl up to the do-while, for a call whose arguments are all
\* given (args = "OK") or not (args = "null"), on the caller's Block b with
\* *eof false: the Status returned ("running": the loop is entered), *eof,
\* and where the call stands.
EnterBlockImpl(args, b) ==
    IF args # "OK"
    THEN [ret |-> "InternalError", eof |-> FALSE, pc |-> "idle"]
    ELSE IF _meta_eos
         THEN [ret |-> "OK", eof |-> TRUE, pc |-> "idle"]
         ELSE [ret |-> "running", eof |-> FALSE, pc |-> "loop"]

\* A call of _get_block_impl.  null_arg: which argument, if any, is null;
\* b: the Block the caller hands in.
GetBlockEnter ==
    /\ pc = "idle"
    /\ \E null_arg \in {"none", "state", "block", "eof"}, b \in CallerBlocks :
       LET args == IF null_arg # "none" THEN "null" ELSE "OK"
           e == EnterBlockImpl(args, b)
       IN  /\ args = "OK" => prepStatus = "OK" /\ opened
           /\ null_arg = "block" => b = <<>>
           /\ call' = [args |-> args, in_block |-> b, meta_eos |-> _meta_eos,
                       cancelled |-> cancelled]
           /\ block' = b
           /\ fills' = "none"
           /\ ret' = e.ret
           /\ eof' = e.eof
           /\ pc' = e.pc
           /\ parity' = FALSE
           /\ IF e.pc = "loop"
              THEN /\ mem_reuse' = BlockMemReuse(b)
                   /\ columns' = [i \in 1..Len(slots) |-> EmptyColumn]
              ELSE /\ mem_reuse' = FALSE
                   /\ columns' = <<>>
    /\ UNCHANGED <<slots, has_params, _tuple_desc, _vconjunct_ctx, _meta_eos,
                   _batch_data, fetchCount, fetched, prepStatus, opened, closed,
                   releases, closeCalls, closeRet, cancelled, appends>>

\* The Block stays within the size the model follows a spinning loop to.
WithinCaps(b) ==
    /\ Len(b) <= MaxBlockCols
    /\ \A i \in 1..Len(b) : Len(b[i].column.data) <= MaxColRows

\* One iteration of the do-while of _get_block_impl.
GetBlockIter ==
    /\ pc = "loop"
    /\ LET r == LoopBody(block, eof, mem_reuse)
       IN  /\ WithinCaps(r.block)
           /\ block' = r.block
           /\ eof' = r.eof
           /\ _meta_eos' = r.meta_eos
           /\ columns' = r.columns
           /\ appends' = [i \in 1..Len(slots) |->
                             IF i \notin r.grew THEN appends[i]
                             ELSE IF appends[i] = 0 THEN 1 ELSE 2]
           /\ fills' = IF ~r.filled THEN fills
                       ELSE IF fills = "none" THEN "one" ELSE "many"
           /\ pc' = IF r.done THEN "idle" ELSE "loop"
           /\ parity' = IF r.done THEN FALSE ELSE ~parity
           /\ ret' = IF r.done THEN r.status ELSE "running"
    /\ UNCHANGED <<slots, has_params, _tuple_desc, _vconjunct_ctx, _batch_data,
                   fetchCount, fetched, prepStatus, opened, closed, releases,
                   closeCalls, closeRet,
                   cancelled, mem_reuse, call>>

\* Another thread cancels the query: RuntimeState::is_cancelled turns true.
Cancel ==
    /\ prepStatus = "OK"
    /\ ~cancelled
    /\ cancelled' = TRUE
    /\ UNCHANGED <<slots, has_params, _tuple_desc, _vconjunct_ctx, _meta_eos,
                   _batch_data, fetchCount, fetched, prepStatus, opened, closed,
                   releases, closeCalls, closeRet, pc, mem_reuse, parity, columns,
                   fills, appends,
                   block, eof, call, ret>>

\* A variant of VScanner::close without the _is_closed test.
VScanner_close_NoClosedTest ==
    [status |-> "OK", closed |-> TRUE,
     releases |-> IF _vconjunct_ctx = "cloned" THEN releases + 1 ELSE releases]

\* VScanner::close: the first call closes the predicate context, if there
\* is one, and sets _is_closed; a later call returns at once.  Gives the
\* Status, _is_closed and the number of releases made so far.
VScanner_close ==
    IF closed
    THEN [status |-> "OK", closed |-> TRUE, releases |-> releases]
    ELSE [status |-> "OK", closed |-> TRUE,
          releases |-> IF _vconjunct_ctx = "cloned" THEN releases + 1 ELSE releases]

\* VMetaScanner::close: RETURN_IF_ERROR(VScanner::close(state)), then OK.
close ==
    /\ pc = "idle"
    /\ LET c == VScanner_close
       IN  /\ closed' = c.closed
           /\ releases' = c.releases
           /\ closeRet' = c.status
    /\ closeCalls' = IF closeCalls = "none" THEN "one" ELSE "many"
    /\ UNCHANGED <<slots, has_params, _tuple_desc, _vconjunct_ctx, _meta_eos,
                   _batch_data, fetchCount, fetched, prepStatus, opened, cancelled,
                   pc, mem_reuse, parity, columns, fills, appends, block, eof, call, ret>>

Next ==
    \/ open
    \/ prepare
    \/ GetBlockEnter
    \/ GetBlockIter
    \/ Cancel
    \/ close

Spec == Init /\ [][Next]_vars

\* A get-next-batch call with all its arguments.
NonNullCall == GetBlockEnter /\ call'.args = "OK"

\* The scanner under a thread that keeps running and a scan node that
\* drives it: a thread inside the do-while takes its next pass, a prepared
\* scanner is opened, and an opened scanner is asked for its next Block.
\* Followed for the tuple descriptors of up to MaxLiveSlots slots.
InitLive == Init /\ Len(slots) <= MaxLiveSlots

SpecLive ==
    /\ InitLive /\ [][Next]_vars
    /\ WF_vars(GetBlockIter) /\ WF_vars(open) /\ WF_vars(NonNullCall)

-----------------------------------------------------------------------------
(* What the claims speak about *)

\* The last _get_block_impl call had all its arguments and has returned.
Returned == pc = "idle" /\ call.args = "OK"

\* ... and it began before end-of-stream, so it went into the fill loop.
Looped == Returned /\ ~call.meta_eos

\* Every materialized slot has a type the convert stage supports.
SchemaSupported ==
    \A i \in 1..Len(slots) : slots[i].is_materialized => slots[i].type \in Supported

\* Every slot is materialized and of a supported type.
AllMaterializedSupported ==
    \A i \in 1..Len(slots) : slots[i].is_materialized /\ slots[i].type \in Supported

\* The buffered rows of column i, converted, in remote row order.
ConvertedColumn(i) ==
    [r \in 1..Len(_batch_data) |->
        ConvertCell(slots[i].type, _batch_data[r].column_value[i])]

\* The rows Block b hands back in column i (none when it has no such column).
HandedRows(b, i) == IF i <= Len(b) THEN b[i].column.data ELSE <<>>

-----------------------------------------------------------------------------
(* C1 *)

\* C1: after a prepare whose fetch brought a non-empty batch, with every slot
\* materialized and supported, the first get-next-batch call (fresh or reused
\* Block) returns OK with the converted rows in the Block, in remote row
\* order, and *eof unset; the following call reports *eof and adds no rows.
C1_FirstBatchThenEof ==
    /\ (Looped /\ ~cancelled /\ AllMaterializedSupported /\ Len(_batch_data) > 0)
          => /\ ret = "OK"
             /\ eof = FALSE
             /\ Len(block) = Len(slots)
             /\ \A i \in 1..Len(slots) : block[i].column.data = ConvertedColumn(i)
    /\ (Returned /\ call.meta_eos /\ AllMaterializedSupported)
          => /\ ret = "OK"
             /\ eof = TRUE
             /\ block = call.in_block

-----------------------------------------------------------------------------
(* C2 *)

\* The convert stage ran, and each materialized column holds exactly the R
\* buffered rows while each non-materialized column is empty.
RowsPerColumn ==
    \A i \in 1..Len(columns) :
        Len(columns[i].data) = IF slots[i].is_materialized THEN Len(_batch_data) ELSE 0

\* C2 as stated: for a successful response of R rows the convert stage puts
\* exactly R rows into each materialized column and leaves every
\* non-materialized column empty, wherever the non-materialized slots sit.
C2_RowsPerColumn_AnySchema == fills # "none" => RowsPerColumn

\* C2, amended: the same, for a slot list whose materialized slots all have
\* supported types.
C2_RowsPerColumn == (fills # "none" /\ SchemaSupported) => RowsPerColumn

\* A two-row batch converted for three slots whose middle one is not
\* materialized.
C2_Witness ==
    /\ fills = "one"
    /\ SchemaSupported
    /\ Len(slots) = 3
    /\ slots[1].is_materialized /\ ~slots[2].is_materialized /\ slots[3].is_materialized
    /\ Len(_batch_data) = 2
    /\ Len(columns[1].data) = 2 /\ Len(columns[2].data) = 0

-----------------------------------------------------------------------------
(* C3 *)

\* C3: with a materialized slot of an unsupported type and a non-empty
\* batch, get-next-batch returns the conversion error, never success.
C3_UnsupportedTypeFails ==
    (Looped /\ ~cancelled /\ ~SchemaSupported /\ Len(_batch_data) > 0)
        => ret = "InternalError"

-----------------------------------------------------------------------------
(* C4 *)

\* The Block the caller did not hand in: reused for fresh, fresh for reused.
OtherBlock == IF call.in_block = <<>> THEN ReusedBlock ELSE <<>>

\* What the same call hands back on the other Block.
OtherCall == LoopBody(OtherBlock, FALSE, BlockMemReuse(OtherBlock))

\* C4: for the same buffered batch and slot list, a call given a fresh Block
\* and a call given a reused, emptied Block hand back the same rows in every
\* column and the same *eof.
C4_BufferReuseEquivalence ==
    (Looped /\ ~cancelled /\ fills = "one" /\ OtherCall.done)
        => /\ \A i \in 1..Len(slots) :
                 HandedRows(block, i) = HandedRows(OtherCall.block, i)
           /\ eof = OtherCall.eof

-----------------------------------------------------------------------------
(* C5 *)

\* Prepare went straight to end-of-stream without a fetch, and every
\* get-next-batch call since reported *eof with no rows.
StraightToEos ==
    /\ prepStatus = "OK"
    /\ fetchCount = 0
    /\ _meta_eos
    /\ pc = "idle"
    /\ Returned => ret = "OK" /\ eof = TRUE /\ BlockRows(block) = 0

-----------------------------------------------------------------------------
(* C6 *)

-----------------------------------------------------------------------------
(* C7 *)

-----------------------------------------------------------------------------
(* C8 *)

\* The fetch RPC failed in transport, or its result carries a failure.
FetchFailed == fetched.rpc # "OK" \/ fetched.result.status # "OK"

\* C8: a fetch that fails, in transport or by the status of its result, is
\* not tried again, leaves the buffered batch without rows, and prepare
\* returns that failure; only a successful result moves its rows into the
\* buffered batch.
C8_FetchFailure ==
    (has_params /\ prepStatus \notin {"none", "CloneError"})
        => /\ fetchCount = 1
           /\ FetchFailed
                => /\ prepStatus = IF fetched.rpc # "OK" THEN fetched.rpc
                                   ELSE fetched.result.status
                   /\ _batch_data = <<>>
           /\ ~FetchFailed
                => /\ prepStatus = "OK"
                   /\ _batch_data = fetched.result.data_batch

\* A result that carries a failure together with two rows: none is kept.
C8_Witness ==
    /\ fetched.rpc = "OK"
    /\ fetched.result.status = "RemoteError"
    /\ Len(fetched.result.data_batch) = 2
    /\ prepStatus = "RemoteError"
    /\ _batch_data = <<>>
    /\ fetchCount = 1

-----------------------------------------------------------------------------
(* C9 *)

\* C9: a get-next-batch call with a null state, Block or eof argument
\* returns an internal error at once in every lifecycle state: no fill runs,
\* _meta_eos and the buffered batch keep their values, and neither the Block
\* nor *eof is written.  (Only a get-next-batch call changes call.)
C9_NullArgument ==
    [][ (call' # call /\ call'.args = "null")
          => /\ ret' = "InternalError"
             /\ pc' = "idle"
             /\ fills' = "none"
             /\ _meta_eos' = _meta_eos
             /\ _batch_data' = _batch_data
             /\ block' = call'.in_block
             /\ eof' = FALSE ]_vars

\* Such a call at end-of-stream, on a reused Block.
C9_Witness ==
    /\ pc = "idle"
    /\ call.args = "null"
    /\ call.meta_eos /\ _meta_eos
    /\ call.in_block = ReusedBlock
    /\ ret = "InternalError"
    /\ eof = FALSE

-----------------------------------------------------------------------------
(* C10 *)

\* C10: a get-next-batch call made before end-of-stream while the query is
\* cancelled returns the cancellation error before any conversion: no fill
\* runs, no column gets a row, the Block is as it was handed in, *eof is
\* unset and _meta_eos is not latched.
C10_CancelledBeforeFill ==
    (Looped /\ call.cancelled)
        => /\ ret = "Cancelled"
           /\ fills = "none"
           /\ \A i \in 1..Len(columns) : columns[i].data = <<>>
           /\ block = call.in_block
           /\ eof = FALSE
           /\ ~_meta_eos

\* Such a call, with two rows buffered and a reused Block.
C10_Witness ==
    /\ Looped /\ call.cancelled
    /\ Len(_batch_data) = 2
    /\ call.in_block = ReusedBlock
    /\ ret = "Cancelled"

-----------------------------------------------------------------------------
(* C11 *)

\* C11: a get-next-batch call with non-null arguments made at end-of-stream
\* sets *eof and returns OK at once, and leaves the caller's Block, the
\* buffered batch and _meta_eos as they were: it allocates and mutates no
\* column and runs no fill.
C11_DrainedCallFrame ==
    [][ (call' # call /\ call'.args = "OK" /\ call'.meta_eos)
          => /\ ret' = "OK"
             /\ eof' = TRUE
             /\ pc' = "idle"
             /\ block' = call'.in_block
             /\ _batch_data' = _batch_data
             /\ _meta_eos' = _meta_eos
             /\ columns' = <<>>
             /\ fills' = "none" ]_vars

\* Such a call on a reused Block, with the two converted rows still buffered.
C11_Witness ==
    /\ Returned /\ call.meta_eos
    /\ call.in_block = ReusedBlock
    /\ Len(_batch_data) = 2
    /\ block = ReusedBlock
    /\ columns = <<>> /\ fills = "none"
    /\ eof = TRUE /\ ret = "OK"

-----------------------------------------------------------------------------
(* C12 *)

\* C12: close is idempotent and safe in every lifecycle state: called before
\* the fetch, with a batch buffered, at end-of-stream, or again after an
\* earlier close, it returns OK, releases the predicate context at most
\* once in the life of the scanner (a call on a closed scanner releases
\* nothing), and changes neither _meta_eos nor the buffered batch.  (Only
\* close changes closed, releases, closeCalls or closeRet.)
C12_CloseIdempotent ==
    [][ <<closed, releases, closeCalls, closeRet>>'
            # <<closed, releases, closeCalls, closeRet>>
          => /\ closeRet' = "OK"
             /\ closed'
             /\ releases' <= 1
             /\ closed => releases' = releases
             /\ _meta_eos' = _meta_eos
             /\ _batch_data' = _batch_data ]_vars

\* close called again at end-of-stream, two rows buffered: the predicate
\* context was released once.
C12_Witness ==
    /\ closeCalls = "many"
    /\ closeRet = "OK"
    /\ closed
    /\ _vconjunct_ctx = "cloned"
    /\ releases = 1
    /\ _meta_eos /\ Len(_batch_data) = 2

-----------------------------------------------------------------------------
(* C13 *)

\* C13: when a get-next-batch call that began before end-of-stream has run
\* the fill and returned, *eof is set exactly when the Block has zero rows
\* and _meta_eos is now latched; so a call that hands back a Block with at
\* least one row leaves *eof unset, and with a fetched batch of zero rows
\* the first call reports *eof.
C13_EofIffNoRows ==
    (Looped /\ fills # "none")
        => /\ eof = TRUE <=> (BlockRows(block) = 0 /\ _meta_eos)
           /\ BlockRows(block) >= 1 => eof = FALSE
           /\ Len(_batch_data) = 0 => (eof = TRUE /\ ret = "OK")

\* A call on a reused Block that handed back the two buffered rows and left
\* *eof unset, end-of-stream being latched.
C13_Witness ==
    /\ Looped /\ fills = "one"
    /\ call.in_block = ReusedBlock
    /\ Len(_batch_data) = 2
    /\ BlockRows(block) = 2
    /\ _meta_eos
    /\ eof = FALSE /\ ret = "OK"

-----------------------------------------------------------------------------
(* C14 *)

\* C14: a get-next-batch call runs the fill at most once, whatever the
\* batch holds and whatever the types of the slots are: the body of the
\* do-while is never run a second time within one call.
C14_SingleFillPerCall == fills # "many"

-----------------------------------------------------------------------------
(* C15 *)

\* The low 32 bits of a 64-bit value.
Low32(v) == <<v[3], v[4]>>

\* What the claims say column c holds for remote row r.
ExpectedEntry(r, c) ==
    LET v == _batch_data[r].column_value[c]
        type == slots[c].type
    IN  CASE type = "TYPE_INT" -> Low32(v.intVal)
          [] type \in {"TYPE_BIGINT", "TYPE_DATETIMEV2"} -> v.longVal
          [] OTHER -> v.stringVal

\* C15: conversion is index-aligned and order-preserving: in every
\* materialized column c of a supported type, the entry a fill appends for
\* remote row r is the conversion of the cell at position c of row r, a
\* 64-bit integer or timestamp bit for bit and a string with its exact
\* length, the rows in remote order; a fill that ran to its end appended an
\* entry for every row, an empty string giving a zero-length entry, not a
\* skipped row.  (A column filled by k passes holds the rows k times over.)
C15_IndexAligned ==
    fills # "none"
        => \A c \in 1..Len(columns) :
              (slots[c].is_materialized /\ slots[c].type \in Supported)
                  => LET d == columns[c].data
                         R == Len(_batch_data)
                     IN  /\ \A j \in 1..Len(d) :
                                /\ d[j] = ExpectedEntry(((j - 1) % R) + 1, c)
                                /\ slots[c].type = "TYPE_STRING"
                                      => Len(d[j]) = Len(ExpectedEntry(((j - 1) % R) + 1, c))
                         /\ _meta_eos => Len(d) = R

\* A non-materialized slot, then a string and a 64-bit integer column, two
\* rows: the second row's empty string is the second, zero-length entry of
\* the string column, and the integer column holds the cells of position 3.
C15_Witness ==
    /\ fills = "one" /\ _meta_eos
    /\ Len(slots) = 3
    /\ ~slots[1].is_materialized
    /\ slots[2].type = "TYPE_STRING" /\ slots[3].type = "TYPE_BIGINT"
    /\ Len(_batch_data) = 2
    /\ columns[2].data = << <<115, 97, 50>>, <<>> >>
    /\ columns[3].data = << <<0, 0, 0, 62>>, <<65535, 65535, 65535, 65532>> >>

-----------------------------------------------------------------------------
(* C16 *)

\* The 64-bit value v lies in the signed 32-bit range.
InInt32Range(v) ==
    \/ v[1] = 0 /\ v[2] = 0 /\ v[3] < 32768
    \/ v[1] = 65535 /\ v[2] = 65535 /\ v[3] >= 32768

\* The 64-bit value of a signed 32-bit one.
SignExtend32(w) ==
    IF w[1] >= 32768 THEN <<65535, 65535, w[1], w[2]>> ELSE <<0, 0, w[1], w[2]>>

\* C16: in a materialized TYPE_INT column every entry is the signed 64-bit
\* source value cut to its low 32 bits: a value in the 32-bit range is
\* stored unchanged, and a value outside it raises no error and is not
\* clamped, it is stored as its low 32 bits.
C16_Int32Truncation ==
    fills # "none"
        => \A c \in 1..Len(columns) :
              (slots[c].is_materialized /\ slots[c].type = "TYPE_INT")
                  => LET d == columns[c].data
                         R == Len(_batch_data)
                     IN  /\ \A j \in 1..Len(d) :
                                LET v == _batch_data[((j - 1) % R) + 1].column_value[c].intVal
                                IN  /\ d[j] = <<v[3], v[4]>>
                                    /\ InInt32Range(v) => SignExtend32(d[j]) = v
                         /\ SchemaSupported => (_meta_eos /\ Len(d) = R)

\* An integer column after a fill of two rows: 11 stored as 11, and
\* 2^32 + 2^31 + 1 stored as its low 32 bits, -2^31 + 1.
C16_Witness ==
    /\ fills = "one" /\ _meta_eos
    /\ slots[1].type = "TYPE_INT"
    /\ Len(_batch_data) = 2
    /\ _batch_data[1].column_value[1].intVal = <<0, 0, 0, 11>>
    /\ _batch_data[2].column_value[1].intVal = <<0, 1, 32768, 1>>
    /\ columns[1].data = << <<0, 11>>, <<32768, 1>> >>

-----------------------------------------------------------------------------
(* C17 *)

\* The next pass of the loop would take the Block past the size the model
\* follows a spinning loop to.
BeyondCaps == pc = "loop" /\ ~WithinCaps(LoopBody(block, eof, mem_reuse).block)

\* C17: after a prepare that returned OK, every get-next-batch call with
\* non-null arguments returns, and a caller that keeps calling is in the
\* end told *eof = true, unless the query is cancelled; for every slot
\* list, one with an unsupported or a non-materialized first slot included.
C17_TerminatesAndReachesEof ==
    /\ [](pc = "loop" => <>(pc = "idle" \/ BeyondCaps))
    /\ [](prepStatus = "OK" => <>((Returned /\ eof = TRUE) \/ cancelled \/ BeyondCaps))

-----------------------------------------------------------------------------
(* C18 *)

\* C18: over any sequence of get-next-batch calls on one scanner the
\* buffered rows are appended to a given column at most once in all, so no
\* Block comes back with more rows in a column than the batch holds.
C18_NoDuplication ==
    /\ \A i \in 1..Len(slots) : appends[i] <= 1
    /\ \A i \in 1..Len(block) : Len(block[i].column.data) <= Len(_batch_data)

-----------------------------------------------------------------------------
(* C19 *)

\* C19: after a fill, the null map of every nullable materialized column
\* has as many entries as its nested column: one marker per inserted row.
C19_NullMapConsistent ==
    fills # "none"
        => \A i \in 1..Len(columns) :
              (slots[i].is_nullable /\ slots[i].is_materialized)
                  => Len(columns[i].null_map) = Len(columns[i].data)

====
